---- MODULE Spec2Model ----
(***************************************************************************)
(* A model of nl2sql.py: the Streamlit script main(), the six cached       *)
(* helper functions it calls, the per-session state it keeps between       *)
(* script runs, and the process-wide state the sessions share (Streamlit's *)
(* function caches and os.environ).                                        *)
(*                                                                         *)
(* Text is modelled as sequences of one-character strings wherever the     *)
(* code transforms it (quote_plus, strip); Str renders such a sequence as  *)
(* a TLA+ string where the code only stores or compares it.                *)
(***************************************************************************)
EXTENDS Naturals, Sequences, FiniteSets, TLC

VARIABLES
    cs_args,          \* arguments of a create_connection_string call under test
    cs_result,        \* what that call returned (<<>> before the call)
    environ,          \* os.environ["OPENAI_API_KEY"] ("" while unset)
    engineCache,      \* st.cache_resource store of create_db_engine
    wrapperCache,     \* st.cache_resource store of create_llama_db_wrapper
    schemaIndexCache, \* st.cache_resource store of build_table_schema_index
    contextCache,     \* st.cache_resource store of build_sql_context_container
    structIndexCache, \* st.cache_resource store of create_sql_struct_store_index
    responseCache,    \* st.cache_data(ttl=60) store of query_sql_structure_store
    session_state,    \* st.session_state of each session
    widget_query,     \* value the "Enter your NL query:" widget had in the session's last run
    pc,               \* where each session's run of main() stands
    loc,              \* local variables of each session's run of main()
    out,              \* what each session's current or last run showed and how it ended
    runs              \* script runs started so far

vars == <<cs_args, cs_result, environ, engineCache, wrapperCache, schemaIndexCache,
          contextCache, structIndexCache, responseCache, session_state,
          widget_query, pc, loc, out, runs>>

-----------------------------------------------------------------------------
(* Bounds of the model. *)

MaxCredLen == 2     \* longest user name / password drawn for create_connection_string
MaxRuns == 2        \* script runs explored by Spec
SessionRuns == 2    \* script runs explored by SpecSessions
HistRuns == 11      \* script runs explored by SpecHistory

(* Program constants. *)

HistoryMaxLen == 10     \* collections.deque(maxlen=10)
DefaultPort == 5439     \* st.number_input("Port", ..., value=5439)

None == [none |-> TRUE]

-----------------------------------------------------------------------------
(* Text. *)

RECURSIVE Str(_)
Str(chars) == IF chars = <<>> THEN "" ELSE Head(chars) \o Str(Tail(chars))

HexDigits == <<"0", "1", "2", "3", "4", "5", "6", "7", "8", "9",
               "A", "B", "C", "D", "E", "F">>

DecDigits == <<"0", "1", "2", "3", "4", "5", "6", "7", "8", "9">>

\* ASCII codes of the characters that need one in the model.
Ascii == { <<" ", 32>>, <<"%", 37>>, <<"+", 43>>, <<"/", 47>>, <<":", 58>>,
           <<"@", 64>> }

Ord(c) == (CHOOSE p \in Ascii : p[1] = c)[2]

Chr(n) == (CHOOSE p \in Ascii : p[2] = n)[1]

\* urllib.parse: _ALWAYS_SAFE, the characters quote() never encodes.
AlwaysSafe ==
    { "A", "B", "C", "D", "E", "F", "G", "H", "I", "J", "K", "L", "M",
      "N", "O", "P", "Q", "R", "S", "T", "U", "V", "W", "X", "Y", "Z",
      "a", "b", "c", "d", "e", "f", "g", "h", "i", "j", "k", "l", "m",
      "n", "o", "p", "q", "r", "s", "t", "u", "v", "w", "x", "y", "z",
      "0", "1", "2", "3", "4", "5", "6", "7", "8", "9", "_", ".", "-", "~" }

\* One character as quote_plus writes it: safe characters unchanged, a space as
\* "+", anything else as "%" and the two upper-case hex digits of its code.
QuoteChar(c) ==
    IF c \in AlwaysSafe THEN <<c>>
    ELSE IF c = " " THEN <<"+">>
    ELSE <<"%", HexDigits[(Ord(c) \div 16) + 1], HexDigits[(Ord(c) % 16) + 1]>>

\* A quote_plus that leaves every character as it is.
quote_plus_Unescaped(s) == s

RECURSIVE quote_plus(_)
quote_plus(s) ==
    IF s = <<>> THEN <<>> ELSE QuoteChar(Head(s)) \o quote_plus(Tail(s))

RECURSIVE IntToStr(_)
IntToStr(n) ==
    IF n < 10 THEN <<DecDigits[n + 1]>>
    ELSE IntToStr(n \div 10) \o <<DecDigits[(n % 10) + 1]>>

Scheme == <<"r", "e", "d", "s", "h", "i", "f", "t", ":", "/", "/">>

create_connection_string(host, port, dbname, user, password) ==
    LET quote_plus_password == quote_plus(password)
        quote_plus_user == quote_plus(user)
    IN  Scheme \o quote_plus_user \o <<":">> \o quote_plus_password \o <<"@">>
            \o host \o <<":">> \o IntToStr(port) \o <<"/">> \o dbname

\* str.strip(): leading and trailing white space removed.
RECURSIVE LStrip(_)
LStrip(s) == IF s # <<>> /\ Head(s) = " " THEN LStrip(Tail(s)) ELSE s

RECURSIVE RStrip(_)
RStrip(s) ==
    IF s # <<>> /\ s[Len(s)] = " " THEN RStrip(SubSeq(s, 1, Len(s) - 1)) ELSE s

Strip(s) == RStrip(LStrip(s))

-----------------------------------------------------------------------------
(* Values the external libraries return, each written as the arguments it  *)
(* was made from.                                                          *)

Sessions == {"s1", "s2"}

ModelOptions == {"_Choose a model_", "gpt-3.5-turbo", "text-davinci-003"}

\* model_name.startswith("_"), over the options of the selectbox.
StartsWithUnderscore(model_name) == model_name = "_Choose a model_"

\* The body of create_db_engine: sa.create_engine either returns an engine or
\* raises, and the except branch turns that into None (after st.error).
create_db_engine(connection_string, engine_ok) ==
    IF engine_ok THEN [url |-> connection_string] ELSE None

\* The body of create_llama_db_wrapper: SQLDatabase(_connection, schema=schema).
create_llama_db_wrapper(_connection, schema) ==
    [engine |-> _connection, schema |-> schema]

\* The body of build_table_schema_index: the index and the context builder derived
\* from the database wrapper, with a predictor for model_name.
build_table_schema_index(_sql_database, model_name) ==
    [sql_database |-> _sql_database, model_name |-> model_name]

\* The index main() hands to the context builder: the schema index alone, or a
\* graph composed of it and an index of the pasted sources.yaml.
IndexToQuery(table_schema_index, dbt_sources_yaml_toggle, dbt_sources_yaml_str) ==
    IF dbt_sources_yaml_toggle
    THEN [graph |-> <<table_schema_index, [document |-> dbt_sources_yaml_str]>>]
    ELSE table_schema_index

\* The body of build_sql_context_container.
build_sql_context_container(_index_to_query, query_str, kwargs) ==
    [index |-> _index_to_query, query_str |-> query_str, kwargs |-> kwargs]

\* The body of create_sql_struct_store_index.
create_sql_struct_store_index(_sql_database, _sql_context_container) ==
    [sql_database |-> _sql_database, sql_context_container |-> _sql_context_container]

\* The body of query_sql_structure_store: the response of the query engine.
query_sql_structure_store(_index, query_str) ==
    [sql_query |-> [question |-> query_str,
                    context |-> _index.sql_context_container]]

(* SummaryBuilder.build_summary: one question for the whole history, here the *)
(* distinct questions in the order they were first asked, joined by a space.  *)

RECURSIVE Distinct(_, _)
Distinct(qs, seen) ==
    IF qs = <<>> THEN <<>>
    ELSE IF Head(qs) \in seen THEN Distinct(Tail(qs), seen)
    ELSE <<Head(qs)>> \o Distinct(Tail(qs), seen \cup {Head(qs)})

RECURSIVE JoinSpace(_)
JoinSpace(qs) ==
    IF qs = <<>> THEN <<>>
    ELSE IF Len(qs) = 1 THEN Head(qs)
    ELSE Head(qs) \o <<" ">> \o JoinSpace(Tail(qs))

build_summary(questions) == JoinSpace(Distinct(questions, {}))

-----------------------------------------------------------------------------
(* Streamlit's caches: a function from the key of a call to the value it    *)
(* returned. The key holds the arguments whose parameter name does not      *)
(* start with an underscore.                                                *)

EmptyCache == <<>>

Put(cache, key, value) == (key :> value) @@ cache

Drop(cache, key) == [k \in (DOMAIN cache) \ {key} |-> cache[k]]

EngineCacheKey(connection_string) == [connection_string |-> connection_string]

WrapperCacheKey(_connection, kwargs) == kwargs

SchemaIndexCacheKey(_sql_database, kwargs) == kwargs

\* A key that leaves out the model name.
ContextCacheKey_NoModel(_context_builder, _index_to_query, query_str, kwargs) ==
    [query_str |-> query_str]
        @@ [k \in (DOMAIN kwargs) \ {"model_name"} |-> kwargs[k]]

ContextCacheKey(_context_builder, _index_to_query, query_str, kwargs) ==
    [query_str |-> query_str] @@ kwargs

StructIndexCacheKey(_sql_database, _sql_context_container, connection_string, query_str) ==
    [connection_string |-> connection_string, query_str |-> query_str]

ResponseCacheKey(_index, query_str, kwargs) ==
    [query_str |-> query_str] @@ kwargs

-----------------------------------------------------------------------------
(* The query history. *)

\* A list that only grows.
DequeAppend_Unbounded(history, entry) == history \o <<entry>>

\* collections.deque(maxlen=10).append
DequeAppend(history, entry) ==
    IF Len(history) = HistoryMaxLen
    THEN Tail(history) \o <<entry>>
    ELSE history \o <<entry>>

\* The SQL attached to the oldest entry instead of the newest.
AttachGenerated_First(history, sql_query) ==
    [history EXCEPT ![1].generated = sql_query]

\* query_history[-1]["generated"] = response.extra_info["sql_query"]
AttachGenerated(history, sql_query) ==
    [history EXCEPT ![Len(history)].generated = sql_query]

Users(history) == [i \in 1..Len(history) |-> history[i].user]

-----------------------------------------------------------------------------
(* How a run of main() ends. *)

NoRun == [result |-> "none", shown |-> {}, table |-> FALSE, calls |-> <<>>,
          ran |-> {}, exc |-> "none", env_read |-> {}]

NewRun == [NoRun EXCEPT !.result = "running"]

\* return 0
Return0(o) == [o EXCEPT !.result = "returned 0"]

\* A top-level handler that shows the exception and returns normally.
OuterExcept_Swallow(o) ==
    [o EXCEPT !.shown = @ \cup {"exception"}, !.result = "returned 0"]

\* except Exception as ex: st.markdown(f":red[{ex}]"); raise ex
OuterExcept(o) == [o EXCEPT !.shown = @ \cup {"exception"}, !.result = "raised"]

\* An inner handler that shows the hint and lets the exception go on.
InnerExcept_Reraise(o) ==
    [o EXCEPT !.shown = @ \cup {"refine", "exception"}, !.result = "raised"]

\* except Exception as ex: st.markdown(":red[We couldn't generate ..."); return
InnerExcept(o) == [o EXCEPT !.shown = @ \cup {"refine"}, !.result = "returned None"]

Called(o, f) == [o EXCEPT !.calls = Append(@, f)]

Ran(o, f) == [o EXCEPT !.calls = Append(@, f), !.ran = @ \cup {f}]

RanWithKey(o, f, key) ==
    [o EXCEPT !.calls = Append(@, f), !.ran = @ \cup {f}, !.env_read = @ \cup {key}]

Raised(o, f) == [o EXCEPT !.exc = f]

NoLocals == [widgets |-> None, connection_string |-> "", db_engine |-> None, triggers |-> None,
             sql_database |-> None, table_schema_index |-> None,
             index_to_query |-> None, condensed_query_str |-> "",
             sql_context_container |-> None, index |-> None, response |-> None]

-----------------------------------------------------------------------------
(* The inputs explored: what the user may enter and which calls may fail.   *)

FormA == [host |-> <<"h">>, port |-> DefaultPort, dbname |-> <<"d">>,
          user |-> <<"u">>, password |-> <<"p", "@", "1">>]

FormB == [FormA EXCEPT !.password = <<"p", ":", "2">>]

QuestionA == <<"a">>

QuestionB == <<"b", " ">>

\* What the widgets hold in one script run.
Base == [form |-> FormA, connect_button |-> TRUE, openai_api_key |-> "sk-A",
         btn_openai_api_key |-> FALSE, model_name |-> "gpt-3.5-turbo",
         schema |-> "public", query_str |-> QuestionA,
         dbt_sources_yaml_toggle |-> FALSE, pasted |-> ""]

\* Base with one input changed, for each input that feeds a cache key.
OneChanged ==
    { [Base EXCEPT !.form = FormB],
      [Base EXCEPT !.openai_api_key = "sk-B"],
      [Base EXCEPT !.model_name = "text-davinci-003"],
      [Base EXCEPT !.schema = "sales"],
      [Base EXCEPT !.dbt_sources_yaml_toggle = TRUE, !.pasted = "y1"],
      [Base EXCEPT !.dbt_sources_yaml_toggle = TRUE, !.pasted = "y2"],
      [Base EXCEPT !.query_str = QuestionB] }

\* Base with an input that stops the script before it generates anything.
Stopping ==
    { [Base EXCEPT !.connect_button = FALSE],
      [Base EXCEPT !.openai_api_key = ""],
      [Base EXCEPT !.openai_api_key = "", !.btn_openai_api_key = TRUE],
      [Base EXCEPT !.model_name = "_Choose a model_"],
      [Base EXCEPT !.query_str = <<>>],
      [Base EXCEPT !.dbt_sources_yaml_toggle = TRUE] }

\* Spec: one session; each input that feeds a cache key changes on its own.
MainInputs ==
    [sessions |-> {"s1"}, widgets |-> {Base} \cup OneChanged \cup Stopping,
     engine_oks |-> BOOLEAN, fails |-> BOOLEAN, maxRuns |-> MaxRuns]

\* SpecSessions: two sessions that differ in the API key they enter.
SessionInputs ==
    [sessions |-> Sessions,
     widgets |-> {Base, [Base EXCEPT !.openai_api_key = "sk-B"]},
     engine_oks |-> {TRUE}, fails |-> BOOLEAN, maxRuns |-> SessionRuns]

\* SpecHistory: one session asking question after question.
HistoryInputs ==
    [sessions |-> {"s1"}, widgets |-> {Base, [Base EXCEPT !.query_str = QuestionB]},
     engine_oks |-> {TRUE}, fails |-> {FALSE}, maxRuns |-> HistRuns]

-----------------------------------------------------------------------------
(* main(), one action per stretch of the script between two points where   *)
(* another session's run may interleave.                                    *)

\* if not session_openapi_key or session_openapi_key != openai_api_key: ...
SessionKeyAfter(session_openapi_key, openai_api_key) ==
    IF session_openapi_key = "" \/ session_openapi_key # openai_api_key
    THEN openai_api_key
    ELSE session_openapi_key

\* A script run starts: the sidebar, the connection, the API key, the model.
Rerun(s, U) ==
    /\ pc[s] = "idle"
    /\ runs < U.maxRuns
    /\ \E w \in U.widgets, engine_ok \in U.engine_oks :
        LET form == w.form
            openai_api_key == w.openai_api_key
            model_name == w.model_name
            clicked == w.connect_button \/ session_state[s].connect_clicked
            connection_string ==
                Str(create_connection_string(form.host, form.port, form.dbname,
                                             form.user, form.password))
            ekey == EngineCacheKey(connection_string)
            ehit == ekey \in DOMAIN engineCache
            db_engine == IF ehit THEN engineCache[ekey]
                         ELSE create_db_engine(connection_string, engine_ok)
            o1 == IF ehit THEN Called(NewRun, "create_db_engine")
                  ELSE Ran(NewRun, "create_db_engine")
            \* st.error inside the cached function is replayed on a cache hit
            o2 == IF db_engine = None
                  THEN [o1 EXCEPT !.shown = @ \cup {"connect_error"}]
                  ELSE o1
            entered == clicked /\ db_engine # None
                       /\ (openai_api_key # "" \/ w.btn_openai_api_key)
            key == SessionKeyAfter(session_state[s].openai_api_key, openai_api_key)
            proceed == entered /\ ~StartsWithUnderscore(model_name)
        IN  /\ runs' = runs + 1
            /\ session_state' =
                 [session_state EXCEPT
                    ![s].connect_clicked = clicked,
                    ![s].openai_api_key = IF entered THEN key ELSE @]
            /\ environ' = IF entered THEN key ELSE environ
            /\ engineCache' = IF clicked /\ ~ehit
                              THEN Put(engineCache, ekey, db_engine)
                              ELSE engineCache
            /\ pc' = [pc EXCEPT ![s] = IF proceed THEN "wrapper" ELSE "idle"]
            /\ out' = [out EXCEPT ![s] =
                         IF ~clicked THEN Return0(NewRun)
                         ELSE IF proceed THEN o2 ELSE Return0(o2)]
            /\ loc' = [loc EXCEPT ![s] =
                         IF proceed
                         THEN [NoLocals EXCEPT
                                 !.widgets = w,
                                 !.connection_string = connection_string,
                                 !.db_engine = db_engine,
                                 !.triggers =
                                    [connection_string |-> connection_string,
                                     openai_api_key |-> openai_api_key,
                                     model_name |-> model_name,
                                     schema |-> w.schema]]
                         ELSE NoLocals]
    /\ UNCHANGED <<cs_args, cs_result, wrapperCache, schemaIndexCache, contextCache,
                   structIndexCache, responseCache, widget_query>>

\* sql_database = create_llama_db_wrapper(db_engine, **cache_invalidation_triggers)
Wrapper(s, U) ==
    /\ pc[s] = "wrapper"
    /\ \E raises \in U.fails :
        LET f == "create_llama_db_wrapper"
            kwargs == loc[s].triggers
            key == WrapperCacheKey(loc[s].db_engine, kwargs)
            hit == key \in DOMAIN wrapperCache
            value == IF hit THEN wrapperCache[key]
                     ELSE create_llama_db_wrapper(loc[s].db_engine, kwargs.schema)
        IN  IF ~hit /\ raises
            THEN /\ out' = [out EXCEPT ![s] = OuterExcept(Raised(Ran(@, f), f))]
                 /\ pc' = [pc EXCEPT ![s] = "idle"]
                 /\ UNCHANGED <<wrapperCache, loc>>
            ELSE /\ out' = [out EXCEPT ![s] = IF hit THEN Called(@, f) ELSE Ran(@, f)]
                 /\ pc' = [pc EXCEPT ![s] = "schema_index"]
                 /\ wrapperCache' = Put(wrapperCache, key, value)
                 /\ loc' = [loc EXCEPT ![s].sql_database = value]
    /\ UNCHANGED <<cs_args, cs_result, environ, engineCache, schemaIndexCache,
                   contextCache, structIndexCache, responseCache, session_state,
                   widget_query, runs>>

\* table_schema_index, context_builder = build_table_schema_index(sql_database, ...)
SchemaIndex(s, U) ==
    /\ pc[s] = "schema_index"
    /\ \E raises \in U.fails :
        LET f == "build_table_schema_index"
            kwargs == loc[s].triggers
            key == SchemaIndexCacheKey(loc[s].sql_database, kwargs)
            hit == key \in DOMAIN schemaIndexCache
            value == IF hit THEN schemaIndexCache[key]
                     ELSE build_table_schema_index(loc[s].sql_database,
                                                   kwargs.model_name)
        IN  IF ~hit /\ raises
            THEN /\ out' = [out EXCEPT ![s] =
                              OuterExcept(Raised(RanWithKey(@, f, environ), f))]
                 /\ pc' = [pc EXCEPT ![s] = "idle"]
                 /\ UNCHANGED <<schemaIndexCache, loc>>
            ELSE /\ out' = [out EXCEPT ![s] =
                              IF hit THEN Called(@, f) ELSE RanWithKey(@, f, environ)]
                 /\ pc' = [pc EXCEPT ![s] = "history"]
                 /\ schemaIndexCache' = Put(schemaIndexCache, key, value)
                 /\ loc' = [loc EXCEPT ![s].table_schema_index = value]
    /\ UNCHANGED <<cs_args, cs_result, environ, engineCache, wrapperCache,
                   contextCache, structIndexCache, responseCache, session_state,
                   widget_query, runs>>

\* The history is shown, the question is read and appended, the index to query is
\* chosen and the history is condensed into one question.
History(s, U) ==
    /\ pc[s] = "history"
    /\ \E raises \in U.fails :
        LET query_history == session_state[s].query_history
            query_str == loc[s].widgets.query_str
            dbt_sources_yaml_toggle == loc[s].widgets.dbt_sources_yaml_toggle
            dbt_sources_yaml_str ==
                IF dbt_sources_yaml_toggle THEN loc[s].widgets.pasted ELSE ""
            run == (query_str # <<>> /\ ~dbt_sources_yaml_toggle)
                   \/ (query_str # <<>> /\ dbt_sources_yaml_toggle
                       /\ dbt_sources_yaml_str # "")
            appended == DequeAppend(query_history,
                                    [user |-> query_str, generated |-> None])
            triggers == [dbt_sources_yaml_toggle |-> dbt_sources_yaml_toggle,
                         dbt_sources_yaml_str |-> dbt_sources_yaml_str]
                        @@ loc[s].triggers
            index_to_query == IndexToQuery(loc[s].table_schema_index,
                                           dbt_sources_yaml_toggle,
                                           dbt_sources_yaml_str)
            condensed_query_str == Str(Strip(build_summary(Users(appended))))
        IN  /\ widget_query' = [widget_query EXCEPT ![s] = query_str]
            /\ IF ~run
               THEN /\ out' = [out EXCEPT ![s] = Return0(@)]
                    /\ pc' = [pc EXCEPT ![s] = "idle"]
                    /\ UNCHANGED <<session_state, loc>>
               ELSE /\ session_state' =
                         [session_state EXCEPT ![s].query_history = appended]
                    /\ IF raises
                       THEN /\ out' = [out EXCEPT ![s] =
                                  OuterExcept(Raised(Ran(@, "build_summary"),
                                                     "build_summary"))]
                            /\ pc' = [pc EXCEPT ![s] = "idle"]
                            /\ loc' = [loc EXCEPT ![s].triggers = triggers]
                       ELSE /\ out' = [out EXCEPT ![s] = Ran(@, "build_summary")]
                            /\ pc' = [pc EXCEPT ![s] = "context"]
                            /\ loc' = [loc EXCEPT
                                  ![s].triggers = triggers,
                                  ![s].index_to_query = index_to_query,
                                  ![s].condensed_query_str = condensed_query_str]
    /\ UNCHANGED <<cs_args, cs_result, environ, engineCache, wrapperCache,
                   schemaIndexCache, contextCache, structIndexCache, responseCache,
                   runs>>

\* sql_context_container = build_sql_context_container(context_builder, ...)
Context(s, U) ==
    /\ pc[s] = "context"
    /\ \E raises \in U.fails :
        LET f == "build_sql_context_container"
            key == ContextCacheKey(loc[s].table_schema_index, loc[s].index_to_query,
                                   loc[s].condensed_query_str, loc[s].triggers)
            hit == key \in DOMAIN contextCache
            value == IF hit THEN contextCache[key]
                     ELSE build_sql_context_container(loc[s].index_to_query,
                                                      loc[s].condensed_query_str,
                                                      loc[s].triggers)
        IN  IF ~hit /\ raises
            THEN /\ out' = [out EXCEPT ![s] =
                              OuterExcept(Raised(RanWithKey(@, f, environ), f))]
                 /\ pc' = [pc EXCEPT ![s] = "idle"]
                 /\ UNCHANGED <<contextCache, loc>>
            ELSE /\ out' = [out EXCEPT ![s] =
                              IF hit THEN Called(@, f) ELSE RanWithKey(@, f, environ)]
                 /\ pc' = [pc EXCEPT ![s] = "generate"]
                 /\ contextCache' = Put(contextCache, key, value)
                 /\ loc' = [loc EXCEPT ![s].sql_context_container = value]
    /\ UNCHANGED <<cs_args, cs_result, environ, engineCache, wrapperCache,
                   schemaIndexCache, structIndexCache, responseCache, session_state,
                   widget_query, runs>>

\* The inner try: create_sql_struct_store_index, then query_sql_structure_store.
Generate(s, U) ==
    /\ pc[s] = "generate"
    /\ \E index_raises \in U.fails, query_raises \in U.fails :
        LET fi == "create_sql_struct_store_index"
            fq == "query_sql_structure_store"
            ikey == StructIndexCacheKey(loc[s].sql_database,
                                        loc[s].sql_context_container,
                                        loc[s].connection_string,
                                        loc[s].condensed_query_str)
            ihit == ikey \in DOMAIN structIndexCache
            index == IF ihit THEN structIndexCache[ikey]
                     ELSE create_sql_struct_store_index(loc[s].sql_database,
                                                        loc[s].sql_context_container)
            oi == IF ihit THEN Called(out[s], fi) ELSE Ran(out[s], fi)
            rkey == ResponseCacheKey(index, loc[s].condensed_query_str,
                                     loc[s].triggers)
            rhit == rkey \in DOMAIN responseCache
            response == IF rhit THEN responseCache[rkey]
                        ELSE query_sql_structure_store(index,
                                                       loc[s].condensed_query_str)
            oq == IF rhit THEN Called(oi, fq) ELSE RanWithKey(oi, fq, environ)
        IN  IF ~ihit /\ index_raises
            THEN /\ out' = [out EXCEPT ![s] = InnerExcept(Raised(oi, fi))]
                 /\ pc' = [pc EXCEPT ![s] = "idle"]
                 /\ UNCHANGED <<structIndexCache, responseCache, loc>>
            ELSE IF ~rhit /\ query_raises
            THEN /\ out' = [out EXCEPT ![s] = InnerExcept(Raised(oq, fq))]
                 /\ pc' = [pc EXCEPT ![s] = "idle"]
                 /\ structIndexCache' = Put(structIndexCache, ikey, index)
                 /\ loc' = [loc EXCEPT ![s].index = index]
                 /\ UNCHANGED responseCache
            ELSE /\ out' = [out EXCEPT ![s] = oq]
                 /\ pc' = [pc EXCEPT ![s] = "attach"]
                 /\ structIndexCache' = Put(structIndexCache, ikey, index)
                 /\ responseCache' = Put(responseCache, rkey, response)
                 /\ loc' = [loc EXCEPT ![s].index = index, ![s].response = response]
    /\ UNCHANGED <<cs_args, cs_result, environ, engineCache, wrapperCache,
                   schemaIndexCache, contextCache, session_state, widget_query, runs>>

\* The generated SQL is attached to the last entry and shown with the result table.
Attach(s, U) ==
    /\ pc[s] = "attach"
    /\ \E raises \in U.fails :
        LET sql_query == loc[s].response.sql_query
        IN  /\ session_state' =
                 [session_state EXCEPT
                    ![s].query_history = AttachGenerated(@, sql_query)]
            /\ out' = [out EXCEPT ![s] =
                         IF raises
                         THEN OuterExcept(Raised(@, "dataframe"))
                         ELSE Return0([@ EXCEPT !.table = TRUE])]
            /\ pc' = [pc EXCEPT ![s] = "idle"]
    /\ UNCHANGED <<cs_args, cs_result, environ, engineCache, wrapperCache,
                   schemaIndexCache, contextCache, structIndexCache, responseCache,
                   widget_query, loc, runs>>

\* ttl=60: a cached response expires.
Expire ==
    /\ \E key \in DOMAIN responseCache : responseCache' = Drop(responseCache, key)
    /\ UNCHANGED <<cs_args, cs_result, environ, engineCache, wrapperCache,
                   schemaIndexCache, contextCache, structIndexCache, session_state,
                   widget_query, pc, loc, out, runs>>

-----------------------------------------------------------------------------
(* The specifications. *)

Init ==
    /\ cs_args = FormA
    /\ cs_result = <<>>
    /\ environ = ""
    /\ engineCache = EmptyCache
    /\ wrapperCache = EmptyCache
    /\ schemaIndexCache = EmptyCache
    /\ contextCache = EmptyCache
    /\ structIndexCache = EmptyCache
    /\ responseCache = EmptyCache
    /\ session_state = [s \in Sessions |->
                          [connect_clicked |-> FALSE, openai_api_key |-> "",
                           query_history |-> <<>>]]
    /\ widget_query = [s \in Sessions |-> <<>>]
    /\ pc = [s \in Sessions |-> "idle"]
    /\ loc = [s \in Sessions |-> NoLocals]
    /\ out = [s \in Sessions |-> NoRun]
    /\ runs = 0

Next ==
    \/ \E s \in MainInputs.sessions :
        \/ Rerun(s, MainInputs)
        \/ Wrapper(s, MainInputs)
        \/ SchemaIndex(s, MainInputs)
        \/ History(s, MainInputs)
        \/ Context(s, MainInputs)
        \/ Generate(s, MainInputs)
        \/ Attach(s, MainInputs)
    \/ Expire

Spec == Init /\ [][Next]_vars

NextSessions ==
    \/ \E s \in SessionInputs.sessions :
        \/ Rerun(s, SessionInputs)
        \/ Wrapper(s, SessionInputs)
        \/ SchemaIndex(s, SessionInputs)
        \/ History(s, SessionInputs)
        \/ Context(s, SessionInputs)
        \/ Generate(s, SessionInputs)
        \/ Attach(s, SessionInputs)
    \/ Expire

SpecSessions == Init /\ [][NextSessions]_vars

NextHistory ==
    \/ \E s \in HistoryInputs.sessions :
        \/ Rerun(s, HistoryInputs)
        \/ Wrapper(s, HistoryInputs)
        \/ SchemaIndex(s, HistoryInputs)
        \/ History(s, HistoryInputs)
        \/ Context(s, HistoryInputs)
        \/ Generate(s, HistoryInputs)
        \/ Attach(s, HistoryInputs)
    \/ Expire

SpecHistory == Init /\ [][NextHistory]_vars

-----------------------------------------------------------------------------
(* create_connection_string on its own: the arguments are drawn in the      *)
(* initial state and one action applies the function.                       *)

Alphabet == {"a", "@", ":", "/", "%", "+", " "}

Strs(n) == UNION { [1..k -> Alphabet] : k \in 0..n }

InitConn ==
    /\ cs_args \in [host : {<<"h">>}, port : {1, DefaultPort}, dbname : {<<"d">>},
                    user : Strs(MaxCredLen), password : Strs(MaxCredLen)]
    /\ cs_result = <<>>
    /\ environ = ""
    /\ engineCache = EmptyCache
    /\ wrapperCache = EmptyCache
    /\ schemaIndexCache = EmptyCache
    /\ contextCache = EmptyCache
    /\ structIndexCache = EmptyCache
    /\ responseCache = EmptyCache
    /\ session_state = [s \in Sessions |->
                          [connect_clicked |-> FALSE, openai_api_key |-> "",
                           query_history |-> <<>>]]
    /\ widget_query = [s \in Sessions |-> <<>>]
    /\ pc = [s \in Sessions |-> "idle"]
    /\ loc = [s \in Sessions |-> NoLocals]
    /\ out = [s \in Sessions |-> NoRun]
    /\ runs = 0

BuildConnectionString ==
    /\ cs_result = <<>>
    /\ cs_result' = create_connection_string(cs_args.host, cs_args.port,
                                             cs_args.dbname, cs_args.user,
                                             cs_args.password)
    /\ UNCHANGED <<cs_args, environ, engineCache, wrapperCache, schemaIndexCache,
                   contextCache, structIndexCache, responseCache, session_state,
                   widget_query, pc, loc, out, runs>>

SpecConn == InitConn /\ [][BuildConnectionString]_vars

(* Reading the string back, as a URL parser does: the user name runs to the *)
(* first ":" after the scheme, the password from there to the first "@".    *)

FirstIndex(s, c) == CHOOSE i \in 1..Len(s) : s[i] = c /\ \A j \in 1..(i - 1) : s[j] # c

AfterScheme(cs) == SubSeq(cs, Len(Scheme) + 1, Len(cs))

UserSegment(cs) ==
    SubSeq(AfterScheme(cs), 1, FirstIndex(AfterScheme(cs), ":") - 1)

PasswordSegment(cs) ==
    LET rest == AfterScheme(cs)
    IN  SubSeq(rest, FirstIndex(rest, ":") + 1, FirstIndex(rest, "@") - 1)

IsHex(c) == \E i \in 1..16 : HexDigits[i] = c

HexVal(c) == (CHOOSE i \in 1..16 : HexDigits[i] = c) - 1

\* urllib.parse.unquote_plus: "+" read as a space, "%XX" as the character XX.
RECURSIVE unquote_plus(_)
unquote_plus(s) ==
    IF s = <<>> THEN <<>>
    ELSE IF Head(s) = "+" THEN <<" ">> \o unquote_plus(Tail(s))
    ELSE IF Head(s) = "%" /\ Len(s) >= 3 /\ IsHex(s[2]) /\ IsHex(s[3])
         THEN <<Chr(16 * HexVal(s[2]) + HexVal(s[3]))>>
                  \o unquote_plus(SubSeq(s, 4, Len(s)))
    ELSE <<Head(s)>> \o unquote_plus(Tail(s))

Reserved == {"@", ":", "/"}

Chars(s) == { s[i] : i \in 1..Len(s) }

-----------------------------------------------------------------------------
(* The claims. *)

QueryHistory(s) == session_state[s].query_history

Last(history) == history[Len(history)]

GenerationStages == {"create_sql_struct_store_index", "query_sql_structure_store"}

\* C1: whenever SQL is generated, the index that is queried holds the context
\* container obtained in the same script run for its current inputs.
C1_IndexHoldsCurrentContainer ==
    \A s \in Sessions :
        "query_sql_structure_store" \in out[s].ran =>
            loc[s].index.sql_context_container = loc[s].sql_context_container

\* C2: the history never holds more than 10 entries, and appending to a full
\* history drops exactly the oldest entry and keeps the other nine in order,
\* followed by the new one.
C2_HistoryBound ==
    [][\A s \in Sessions :
         LET old == session_state[s].query_history
             new == session_state'[s].query_history
             entry == [user |-> loc[s].widgets.query_str, generated |-> None]
         IN  /\ Len(new) <= HistoryMaxLen
             /\ (pc[s] = "history" /\ new # old) =>
                    IF Len(old) = HistoryMaxLen
                    THEN /\ Len(new) = HistoryMaxLen
                         /\ SubSeq(new, 1, HistoryMaxLen - 1) = Tail(old)
                         /\ Last(new) = entry
                    ELSE new = Append(old, entry)]_vars

C2_Witness ==
    \E s \in Sessions :
        /\ runs > HistoryMaxLen
        /\ pc[s] = "context"
        /\ Len(QueryHistory(s)) = HistoryMaxLen

\* C3: build_sql_context_container returns a container made for exactly the
\* current condensed question and six inputs, and it builds one afresh exactly
\* when no cached container was made for the same question and the same six.
C3_CacheKeySensitivity ==
    [][\A s \in Sessions :
         (pc[s] = "context" /\ pc'[s] = "generate") =>
            LET made == loc'[s].sql_context_container
                cached == { contextCache[k] : k \in DOMAIN contextCache }
                same == { c \in cached :
                            /\ c.query_str = loc[s].condensed_query_str
                            /\ c.kwargs = loc[s].triggers }
            IN  /\ made.query_str = loc[s].condensed_query_str
                /\ made.kwargs = loc[s].triggers
                /\ DOMAIN made.kwargs =
                      {"connection_string", "openai_api_key", "model_name", "schema",
                       "dbt_sources_yaml_toggle", "dbt_sources_yaml_str"}
                /\ ("build_sql_context_container" \in out'[s].ran) <=> (same = {})
                /\ same # {} => made \in same]_vars

C3_Witness ==
    \E s \in Sessions :
        /\ pc[s] = "generate"
        /\ "build_sql_context_container" \in out[s].ran
        /\ \E k \in DOMAIN contextCache :
              /\ contextCache[k].query_str = loc[s].condensed_query_str
              /\ contextCache[k].kwargs # loc[s].triggers

\* C4: a script run in which the question text is the same as in the session's
\* previous run does not append another history entry.
C4_NoAppendWithoutNewQuestion ==
    [][\A s \in Sessions :
         (pc[s] = "history" /\ loc[s].widgets.query_str = widget_query[s]) =>
            session_state'[s].query_history = session_state[s].query_history]_vars

\* C5: a step changes the history only by appending an entry without SQL (which
\* leaves every earlier entry as it was) or by attaching, after a generation that
\* raised nothing, the SQL of the current run to the last entry alone.
C5_OnlyAttachRewrites ==
    [][\A s \in Sessions :
         LET old == session_state[s].query_history
             new == session_state'[s].query_history
             entry == [user |-> loc[s].widgets.query_str, generated |-> None]
         IN  new # old =>
               \/ /\ pc[s] = "history"
                  /\ \/ new = Append(old, entry)
                     \/ Len(old) = HistoryMaxLen /\ new = Append(Tail(old), entry)
               \/ /\ pc[s] = "attach"
                  /\ out[s].exc = "none"
                  /\ Len(new) = Len(old)
                  /\ \A i \in 1..(Len(old) - 1) : new[i] = old[i]
                  /\ Last(new).user = Last(old).user
                  /\ Last(old).generated = None
                  /\ Last(new).generated = loc[s].response.sql_query
                  /\ Last(new).generated.question = loc[s].condensed_query_str]_vars

C5_Witness ==
    \E s \in Sessions :
        /\ Len(QueryHistory(s)) = 2
        /\ QueryHistory(s)[1].generated = None
        /\ QueryHistory(s)[2].generated # None

\* C6: when building or querying the SQL index raises, the hint to refine the
\* question is shown, the run returns without raising and without a result
\* table, and the history is left as it was, its last entry being the current
\* question without generated SQL.
C6_GenerationError ==
    [][\A s \in Sessions :
         (pc[s] = "generate" /\ out'[s].exc \in GenerationStages) =>
            /\ "refine" \in out'[s].shown
            /\ "exception" \notin out'[s].shown
            /\ out'[s].result = "returned None"
            /\ ~out'[s].table
            /\ pc'[s] = "idle"
            /\ session_state'[s].query_history = session_state[s].query_history
            /\ Last(QueryHistory(s)) =
                  [user |-> loc[s].widgets.query_str, generated |-> None]]_vars

C6_Witness ==
    \E s \in Sessions :
        /\ out[s].exc = "query_sql_structure_store"
        /\ out[s].result = "returned None"
        /\ Len(QueryHistory(s)) = 2
        /\ QueryHistory(s)[1].generated # None

\* C7: when engine creation fails, the error is shown, the run made exactly one
\* attempt to create the engine, called nothing after it and returned.
C7_EngineFailure ==
    \A s \in Sessions :
        "connect_error" \in out[s].shown =>
            /\ "create_db_engine" \in out[s].ran
            /\ out[s].calls = <<"create_db_engine">>
            /\ out[s].result = "returned 0"

\* C8: an exception raised in a stage other than the two generation stages is
\* shown and raised out of main, and no stage is called twice in a run.
C8_Reraised ==
    \A s \in Sessions :
        /\ (out[s].exc \notin GenerationStages \cup {"none"}) =>
              /\ out[s].result = "raised"
              /\ "exception" \in out[s].shown
              /\ "refine" \notin out[s].shown
              /\ pc[s] = "idle"
        /\ \A i, j \in 1..Len(out[s].calls) :
              out[s].calls[i] = out[s].calls[j] => i = j

C8_Witness ==
    \E s \in Sessions :
        /\ out[s].exc = "build_sql_context_container"
        /\ out[s].result = "raised"

\* C10: every value of OPENAI_API_KEY that a session's model-calling steps read
\* is the API key entered in that session.
C10_EnvKeyIsSessionKey ==
    \A s \in Sessions :
        out[s].env_read \subseteq {session_state[s].openai_api_key}

====
